---- MODULE Spec2Model ----
(***************************************************************************)
(* Pupillometry per-subject pipelines: fluency_proc_subject.py,            *)
(* hvlt_recall_proc_subject.py and hvlt_encoding_proc_subject.py.          *)
(*                                                                         *)
(* A raw session is a sequence of rows [TETTime, CurrentObject]; the row   *)
(* at position i carries the pandas index label i - 1.  Time is counted in *)
(* ticks of 250ms, so that '500ms' is 2 ticks, '1s' 4 ticks and '6s' 24.   *)
(* A table column of numbers holds NaN for a missing value and a column of *)
(* strings holds Null.                                                     *)
(***************************************************************************)
EXTENDS Integers, Sequences, FiniteSets, TLC

VARIABLES task,         \* which script runs: "fluency", "recall", "encoding"
          entry,        \* "proc_subject", or "functions" for direct calls
          pc,           \* the statement the script is about to execute
          df,           \* the raw session read from the file
          env,          \* names bound in the running frame
          trialevents,  \* the trial-event table
          rawtrials,    \* clean_trials: trial number -> selected row positions
          dfresamp,     \* clean_trials: the concatenated per-trial table
          pupildf,      \* the fine time-bin table
          pupildf6s,    \* the coarse (6s) time-bin table
          written,      \* output files written so far, in order
          err           \* the exception that ended the run, or "none"

vars == <<task, entry, pc, df, env, trialevents, rawtrials, dfresamp,
          pupildf, pupildf6s, written, err>>

-----------------------------------------------------------------------------
(* Bounds of the explored inputs *)

MaxBlocks == 12     \* blocks (repetitions) in a fluency-style stream
MaxRun == 2         \* rows in one run of equal labels
MaxLen == 4         \* rows in an encoding or recall session
MaxStride == 3      \* ticks between two rows of an encoding session

-----------------------------------------------------------------------------
(* Values *)

NaN == -1
Null == "NaN"

ReadLetter == "ReadLetter"
BeginFile == "BeginFile"
RecordLetter == "RecordLetter"
Other == "Fixation"

NTrials == 6
EventsPerTrial == 4
ConditionRepeat == 12

W500ms == 2
W1s == 4
W6s == 24
W2000ms == 8
GridStep == 1

Rep(x, k) == [i \in 1..k |-> x]

Min(S) == CHOOSE x \in S : \A y \in S : x <= y
Max(S) == CHOOSE x \in S : \A y \in S : x >= y

\* numeric comparisons: any comparison with NaN is False
Ge(a, b) == a # NaN /\ b # NaN /\ a >= b
Le(a, b) == a # NaN /\ b # NaN /\ a <= b
Lt(a, b) == a # NaN /\ b # NaN /\ a < b

\* Series.ne: NaN differs from everything, itself included
Ne(a, b) == a = Null \/ b = Null \/ a # b

-----------------------------------------------------------------------------
(* Boundary detection shared by the fluency and recall get_trial_events *)

\* df['CurrentObject'].shift().ffill() at row i: the last non-null label
\* before row i, NaN when there is none
RECURSIVE ShiftFfill(_, _)
ShiftFfill(d, i) ==
    IF i <= 1 THEN Null
    ELSE IF d[i - 1].CurrentObject # Null THEN d[i - 1].CurrentObject
    ELSE ShiftFfill(d, i - 1)

\* df['CurrentObject'].shift(-1).bfill() at row i: the first non-null label
\* after row i, NaN when there is none
RECURSIVE ShiftBfill(_, _)
ShiftBfill(d, i) ==
    IF i >= Len(d) THEN Null
    ELSE IF d[i + 1].CurrentObject # Null THEN d[i + 1].CurrentObject
    ELSE ShiftBfill(d, i + 1)

startidx(d, i) == Ne(d[i].CurrentObject, ShiftFfill(d, i))
stopidx(d, i) == Ne(d[i].CurrentObject, ShiftBfill(d, i))

\* the rows of d at the positions in S, in stream order, as event rows
RECURSIVE RowsAt(_, _)
RowsAt(d, S) ==
    IF S = {} THEN <<>>
    ELSE LET i == Min(S)
         IN  <<[idx |-> i - 1, TETTime |-> d[i].TETTime,
                CurrentObject |-> d[i].CurrentObject]>> \o RowsAt(d, S \ {i})

trialevents_start(d) ==
    RowsAt(d, {i \in 1..Len(d) :
                  /\ d[i].CurrentObject = ReadLetter
                     \/ d[i].CurrentObject = RecordLetter
                  /\ startidx(d, i)})

trialevents_stop(d) ==
    RowsAt(d, {i \in 1..Len(d) :
                  /\ d[i].CurrentObject = BeginFile
                     \/ d[i].CurrentObject = RecordLetter
                  /\ stopidx(d, i)})

\* np.tile(['Baseline','Response'], 6)
TilePhase == [p \in 1..(2 * NTrials) |->
                 IF p % 2 = 1 THEN "Baseline" ELSE "Response"]

\* frame['TrialPhase'] = np.tile(...); frame[kindcol] = kind.
\* A frame with no rows takes its index from the assigned values (one row
\* per value, index 0.., every other column missing); a frame whose length
\* differs from the number of values raises ValueError.
SetPhaseAndKind(frame, kindcol, kind) ==
    IF Len(frame) = 0
    THEN [p \in 1..Len(TilePhase) |->
             [idx |-> p - 1, TETTime |-> NaN, CurrentObject |-> Null,
              TrialPhase |-> TilePhase[p],
              StartStop |-> IF kindcol = "StartStop" THEN kind ELSE Null,
              StatStop |-> IF kindcol = "StatStop" THEN kind ELSE Null,
              side |-> kind]]
    ELSE [p \in 1..Len(frame) |->
             [idx |-> frame[p].idx, TETTime |-> frame[p].TETTime,
              CurrentObject |-> frame[p].CurrentObject,
              TrialPhase |-> TilePhase[p],
              StartStop |-> IF kindcol = "StartStop" THEN kind ELSE Null,
              StatStop |-> IF kindcol = "StatStop" THEN kind ELSE Null,
              side |-> kind]]

TileFits(frame) == Len(frame) = 0 \/ Len(frame) = Len(TilePhase)

Range(s) == {s[i] : i \in 1..Len(s)}

\* index labels carried by a row of each frame
TiedIdx(starts, stops) ==
    {r.idx : r \in Range(starts)} \cap {r.idx : r \in Range(stops)}

\* trialevents_start.append(trialevents_stop).sort_index(): rows ordered by
\* index label.  The sort is not stable: of two rows with the same label
\* (one of each frame) either may come first; flips is the set of labels
\* whose stop-frame row comes first.
SortOutcomes(tied) == {{}, tied} \cup {{x} : x \in tied}

AppendSortIndex(starts, stops, flips) ==
    LET rows == Range(starts) \cup Range(stops)
        key(r) == 2 * r.idx +
                  (IF r.side = "Start"
                   THEN (IF r.idx \in flips THEN 1 ELSE 0)
                   ELSE (IF r.idx \in flips THEN 0 ELSE 1))
        rank(r) == 1 + Cardinality({q \in rows : key(q) < key(r)})
    IN  [p \in 1..Cardinality(rows) |-> CHOOSE r \in rows : rank(r) = p]

\* np.repeat(range(1,7), 4) at table position p
RepeatTrial_Tiled(p) == ((p - 1) % NTrials) + 1
RepeatTrial(p) == ((p - 1) \div EventsPerTrial) + 1

\* np.repeat(['Letter', 'Category'], 12) at table position p
RepeatCondition(p) == IF p <= ConditionRepeat THEN "Letter" ELSE "Category"

\* trialevents['Trial'] = ...; trialevents['Condition'] = ...
SetTrialAndCondition(tab) ==
    [p \in 1..Len(tab) |->
        [idx |-> tab[p].idx, TETTime |-> tab[p].TETTime,
         CurrentObject |-> tab[p].CurrentObject,
         TrialPhase |-> tab[p].TrialPhase,
         StartStop |-> tab[p].StartStop, StatStop |-> tab[p].StatStop,
         Trial |-> RepeatTrial(p), Condition |-> RepeatCondition(p)]]

\* get_trial_events raises ValueError exactly when a length check fails
GetTrialEventsRaises(d) ==
    \/ ~TileFits(trialevents_start(d))
    \/ ~TileFits(trialevents_stop(d))

\* the tables get_trial_events can return; kindcol is the column the start
\* rows get the constant 'Start' in
GetTrialEvents(d, kindcol) ==
    LET starts == SetPhaseAndKind(trialevents_start(d), kindcol, "Start")
        stops == SetPhaseAndKind(trialevents_stop(d), "StartStop", "Stop")
        tied == TiedIdx(starts, stops)
    IN  {SetTrialAndCondition(AppendSortIndex(starts, stops, flips)) :
            flips \in SortOutcomes(tied)}

fluency_get_trial_events(d) == GetTrialEvents(d, "StartStop")
recall_get_trial_events(d) == GetTrialEvents(d, "StatStop")

-----------------------------------------------------------------------------
(* clean_trials of fluency and recall: the rows selected for each trial *)

\* trialevents.Trial.unique()
TrialUnique(tab) == {tab[p].Trial : p \in 1..Len(tab)}

\* trialevents.loc[trialevents.Trial==trialnum,'TETTime'], in table order
RECURSIVE TrialTimes(_, _, _)
TrialTimes(tab, trialnum, p) ==
    IF p > Len(tab) THEN <<>>
    ELSE (IF tab[p].Trial = trialnum THEN <<tab[p].TETTime>> ELSE <<>>)
         \o TrialTimes(tab, trialnum, p + 1)

\* df.loc[(df.TETTime>=starttime) & (df.TETTime<=stoptime)]
SelectRows(d, starttime, stoptime) ==
    {i \in 1..Len(d) : Ge(d[i].TETTime, starttime)
                       /\ Le(d[i].TETTime, stoptime)}

\* fluency: starttime, stoptime = ....iloc[[0,-1]]
fluency_rawtrial(d, tab, trialnum) ==
    LET tt == TrialTimes(tab, trialnum, 1)
    IN  SelectRows(d, tt[1], tt[Len(tt)])

\* recall: basestart, basestop, respstart, respstop = ...
recall_rawtrial(d, tab, trialnum) ==
    LET tt == TrialTimes(tab, trialnum, 1)
    IN  SelectRows(d, tt[1], tt[4])

\* pupil_utils.resamp_filt_data: the uniform grid of sample times anchored at
\* the trial's first timestamp
ResampGrid(d, rows) ==
    IF rows = {} THEN {}
    ELSE LET t0 == Min({d[i].TETTime : i \in rows})
             t1 == Max({d[i].TETTime : i \in rows})
         IN  {t \in t0..t1 : (t - t0) % GridStep = 0}

-----------------------------------------------------------------------------
(* Time-bin aggregation *)

FloorTo(t, w) == (t \div w) * w
CeilTo(t, w) == ((t + w - 1) \div w) * w

\* x.resample(w).mean() with pandas' defaults for a sub-daily width:
\* closed='left', label='left'; every bin from the first to the last sample
\* is emitted, members being the samples averaged into it
ResampleLeft(times, w) ==
    IF times = {} THEN {}
    ELSE {[Timestamp |-> b, members |-> {t \in times : b <= t /\ t < b + w}] :
            b \in {x \in FloorTo(Min(times), w)..FloorTo(Max(times), w) :
                      x % w = 0}}

\* the aggregation with the closed and label arguments left out
ResampleRight_DefaultSides(times, w) == ResampleLeft(times, w)

\* x.resample(w, closed='right', label='right').mean()
ResampleRight(times, w) ==
    IF times = {} THEN {}
    ELSE {[Timestamp |-> b, members |-> {t \in times : b - w < t /\ t <= b}] :
            b \in {x \in CeilTo(Min(times), w)..CeilTo(Max(times), w) :
                      x % w = 0}}

-----------------------------------------------------------------------------
(* Word-list encoding: get_trial_events and clean_trials *)

Ready == "Ready"
PlayWord == "PlayWord1"
EndPlayWord == "EndPlayWord"

\* CurrentObject.str.contains('PlayWord')
ContainsPlayWord(l) == l = PlayWord \/ l = EndPlayWord
\* the filter of line 62 written with str.contains, as the one of line 54 is
MatchPlayWord_Contains(l) == ContainsPlayWord(l)
\* CurrentObject.str.match("PlayWord"): anchored at the start of the label
MatchPlayWord(l) == l = PlayWord

isnull(d, i) == d[i].CurrentObject = Null

\* (isnull != isnull.shift()).cumsum() at row i; the first row compares with
\* the missing value shift() puts there and so always counts
RECURSIVE partitions(_, _)
partitions(d, i) ==
    IF i = 1 THEN 1
    ELSE partitions(d, i - 1)
         + (IF isnull(d, i) # isnull(d, i - 1) THEN 1 ELSE 0)

\* the keys of df[~isnull].groupby(partitions)
GroupKeys(d) == {partitions(d, i) : i \in {j \in 1..Len(d) : ~isnull(d, j)}}

\* pd.concat(groups, keys=range(1, len(gb.groups) + 1)): the trial number of
\* the group with key part, groups being taken in key order
TrialOfGroup_RawKey(keys, part) == part
TrialOfGroup(keys, part) == Cardinality({q \in keys : q <= part})

\* the table encoding get_trial_events returns: the non-null rows in stream
\* order, each with its trial number
RECURSIVE EncodingRows(_, _, _)
EncodingRows(d, keys, i) ==
    IF i > Len(d) THEN <<>>
    ELSE (IF isnull(d, i) THEN <<>>
          ELSE <<[idx |-> i - 1, TETTime |-> d[i].TETTime,
                  CurrentObject |-> d[i].CurrentObject,
                  Trial |-> TrialOfGroup(keys, partitions(d, i))]>>)
         \o EncodingRows(d, keys, i + 1)

\* pd.concat raises ValueError on an empty list of groups
encoding_get_trial_events_raises(d) == GroupKeys(d) = {}
encoding_get_trial_events(d) == EncodingRows(d, GroupKeys(d), 1)

\* rawtrial of clean_trials: the trial's rows labelled 'Ready' or containing
\* 'PlayWord', as positions in the trial-event table
encoding_rawtrial(tab, trial) ==
    {p \in 1..Len(tab) : /\ tab[p].Trial = trial
                         /\ tab[p].CurrentObject = Ready
                            \/ ContainsPlayWord(tab[p].CurrentObject)}

\* pupil_utils.resamp_filt_data on the rows at positions rows of tab: one
\* sample per grid time from the first row's time on, a string column
\* taking the value of the latest row at or before the sample
ResampRows(tab, rows) ==
    IF rows = {} THEN {}
    ELSE LET t0 == Min({tab[p].TETTime : p \in rows})
             t1 == Max({tab[p].TETTime : p \in rows})
             src(t) == Max({p \in rows : tab[p].TETTime <= t})
         IN  {[t |-> t, CurrentObject |-> tab[src(t)].CurrentObject] :
                 t \in {x \in t0..t1 : (x - t0) % GridStep = 0}}

\* trial_resamp.loc[CurrentObject=="Ready", ...].last("500ms"): the sample
\* times the baseline is the mean of; empty when the mean is NaN
encoding_baseline(samples) ==
    LET ready == {s.t : s \in {x \in samples : x.CurrentObject = Ready}}
    IN  IF ready = {} THEN {}
        ELSE {t \in ready : t > Max(ready) - W500ms}

\* trial_resamp[trial_resamp.CurrentObject.str.match("PlayWord")]
encoding_response(samples) ==
    {s \in samples : MatchPlayWord(s.CurrentObject)}

\* one pass of the loop of clean_trials; trial_resamp.index[0] raises
\* IndexError when no sample is left
encoding_trial_raises(tab, trial) ==
    encoding_response(ResampRows(tab, encoding_rawtrial(tab, trial))) = {}

encoding_clean_trial(tab, trial) ==
    LET samples == ResampRows(tab, encoding_rawtrial(tab, trial))
        resp == encoding_response(samples)
        first == Min({s.t : s \in resp})
    IN  [Baseline |-> encoding_baseline(samples),
         rows |-> {[Timestamp |-> s.t - first,
                    CurrentObject |-> s.CurrentObject] : s \in resp}]

-----------------------------------------------------------------------------
(* Word-list recall: the pre-filter of proc_subject *)

RecallBaseline == "RecallInstructions"
RecallResponse == "RecallResponse"

\* CurrentObject.str.contains("Recall", na=False)
ContainsRecall(l) == l = RecallBaseline \/ l = RecallResponse

RECURSIVE SelectSeq2(_, _)
SelectSeq2(d, i) ==
    IF i > Len(d) THEN <<>>
    ELSE (IF ContainsRecall(d[i].CurrentObject) THEN <<d[i]>> ELSE <<>>)
         \o SelectSeq2(d, i + 1)

\* df[df.CurrentObject.str.contains("Recall", na=False)]
recall_prefilter(d) == SelectSeq2(d, 1)

-----------------------------------------------------------------------------
(* Word-list recall: one pass of the loop of clean_trials *)

\* rawtrial.loc[..., 'Phase']: 'Baseline' on [basestart, basestop], then
\* 'Response' on [respstart, respstop], the second assignment overwriting
\* the first where both hold; no value elsewhere
recall_phase(d, tab, trialnum, i) ==
    LET tt == TrialTimes(tab, trialnum, 1)
    IN  IF Ge(d[i].TETTime, tt[3]) /\ Le(d[i].TETTime, tt[4])
        THEN "Response"
        ELSE IF Ge(d[i].TETTime, tt[1]) /\ Le(d[i].TETTime, tt[2])
        THEN "Baseline"
        ELSE Null

\* pupil_utils.resamp_filt_data on rawtrial: one sample per grid time, the
\* string column Phase taking the value of the latest row at or before the
\* sample
recall_trial_resamp(d, tab, trialnum) ==
    LET rows == recall_rawtrial(d, tab, trialnum)
        src(t) == Max({i \in rows : d[i].TETTime <= t})
    IN  {[Timestamp |-> t, Phase |-> recall_phase(d, tab, trialnum, src(t))] :
            t \in ResampGrid(d, rows)}

\* trial_resamp['DiameterPupilLRFilt'].first('2000ms'): the samples the
\* baseline is the mean of, those less than 2000ms after the first one
recall_first(samples) ==
    IF samples = {} THEN {}
    ELSE LET t0 == Min({s.Timestamp : s \in samples})
         IN  {s \in samples : s.Timestamp < t0 + W2000ms}

\* trial_resamp[trial_resamp.Phase=='Response']
recall_response(samples) == {s \in samples : s.Phase = "Response"}

recall_clean_trial(d, tab, trialnum) ==
    LET samples == recall_trial_resamp(d, tab, trialnum)
    IN  [Baseline |-> recall_first(samples),
         rows |-> recall_response(samples)]

-----------------------------------------------------------------------------
(* The sessions explored *)

\* TETTime of the row at position i when the clock advances one tick every
\* res rows: strictly increasing for res = 1, non-decreasing with repeated
\* timestamps for res = 2
TimeOf(i, res) == (i + res - 1) \div res

ClockRes == {1, 2}

RECURSIVE Blocks(_, _)
Blocks(block, n) == IF n = 0 THEN <<>> ELSE block \o Blocks(block, n - 1)

Leads == {<<>>, <<ReadLetter, Null>>}
Seps == {<<>>, <<Other>>}

\* lead, then n blocks of a ReadLetter rows, b BeginFile rows, c
\* RecordLetter rows and the separator
FluencyStream(lead, n, a, b, c, sep, res) ==
    LET block == Rep(ReadLetter, a) \o Rep(BeginFile, b)
                 \o Rep(RecordLetter, c) \o sep
        labels == lead \o Blocks(block, n)
    IN  [i \in 1..Len(labels) |->
            [TETTime |-> TimeOf(i, res), CurrentObject |-> labels[i]]]

FluencyStreams ==
    {FluencyStream(lead, n, a, b, c, sep, res) :
        lead \in Leads, n \in 0..MaxBlocks, a \in 0..MaxRun, b \in 0..MaxRun,
        c \in 0..MaxRun, sep \in Seps, res \in ClockRes}

RECURSIVE SeqsUpTo(_, _)
SeqsUpTo(S, n) ==
    IF n = 0 THEN {<<>>}
    ELSE LET shorter == SeqsUpTo(S, n - 1)
         IN  shorter \cup {Append(q, x) : q \in shorter, x \in S}

ShortStream(labels) ==
    [i \in 1..Len(labels) |-> [TETTime |-> i, CurrentObject |-> labels[i]]]

\* rows stride ticks apart: the resampling grid then has samples between
\* two rows
StridedStream(labels, stride) ==
    [i \in 1..Len(labels) |->
        [TETTime |-> i * stride, CurrentObject |-> labels[i]]]

Strides == {1, MaxStride}

EncodingLabels == {Null, Ready, PlayWord, EndPlayWord, Other}
EncodingStreams ==
    {StridedStream(l, s) : l \in SeqsUpTo(EncodingLabels, MaxLen),
                           s \in Strides}

RecallLabels == {Null, RecallBaseline, RecallResponse, Other}
RecallStreams == {ShortStream(l) : l \in SeqsUpTo(RecallLabels, MaxLen)}

-----------------------------------------------------------------------------
(* proc_subject, statement by statement *)

\* fluency proc_subject, lines 88-99
FluencyProgram_WriteFirst ==
    <<"write_blinkpct", "get_trial_events", "clean_trials", "write_pupil",
      "plot_trials">>
FluencyProgram ==
    <<"get_trial_events", "clean_trials", "write_blinkpct", "write_pupil",
      "plot_trials">>

\* encoding proc_subject, lines 106-137
EncodingProgram ==
    <<"get_trial_events", "clean_trials", "resample_1s", "write_pupil",
      "plot_trials", "resample_6s", "write_quartiles">>

\* recall proc_subject, lines 114-119: the call of clean_trials raises on
\* every run, so no later statement is ever executed
RecallProgram == <<"prefilter", "deblink_resamp", "clean_trials">>

\* recall's get_trial_events and clean_trials called one after the other
RecallFunctions == <<"get_trial_events", "clean_trials">>

Program(t, e) ==
    IF t = "fluency" THEN FluencyProgram
    ELSE IF t = "encoding" THEN EncodingProgram
    ELSE IF e = "proc_subject" THEN RecallProgram ELSE RecallFunctions

NextStmt(prog, stmt) ==
    LET at == CHOOSE i \in 1..Len(prog) : prog[i] = stmt
    IN  IF at = Len(prog) THEN "done" ELSE prog[at + 1]

Init ==
    /\ \/ /\ task = "fluency" /\ entry = "proc_subject"
          /\ df \in FluencyStreams
       \/ /\ task = "recall" /\ entry = "functions"
          /\ df \in FluencyStreams
       \/ /\ task = "recall" /\ entry = "proc_subject"
          /\ df \in RecallStreams
       \/ /\ task = "encoding" /\ entry = "proc_subject"
          /\ df \in EncodingStreams
    /\ pc = Program(task, entry)[1]
    /\ env = {"df"}
    /\ trialevents = <<>>
    /\ rawtrials = <<>>
    /\ dfresamp = <<>>
    /\ pupildf = {}
    /\ pupildf6s = {}
    /\ written = <<>>
    /\ err = "none"

\* an uncaught exception ends the run
Raise(e) ==
    /\ pc' = "failed"
    /\ err' = e
    /\ UNCHANGED <<task, entry, df, env, trialevents, rawtrials, dfresamp,
                   pupildf, pupildf6s, written>>

Goto == pc' = NextStmt(Program(task, entry), pc)

\* trialevents = get_trial_events(df), fluency and recall
GetTrialEvents_FluencyRecall ==
    /\ task \in {"fluency", "recall"}
    /\ pc = "get_trial_events"
    /\ IF GetTrialEventsRaises(df)
       THEN Raise("ValueError")
       ELSE /\ \E tab \in (IF task = "fluency"
                           THEN fluency_get_trial_events(df)
                           ELSE recall_get_trial_events(df)) :
                  trialevents' = tab
            /\ env' = env \cup {"trialevents"}
            /\ Goto
            /\ UNCHANGED <<task, entry, df, rawtrials, dfresamp, pupildf,
                           pupildf6s, written, err>>

\* dfresamp = clean_trials(df, trialevents), fluency
CleanTrials_Fluency ==
    /\ task = "fluency"
    /\ pc = "clean_trials"
    /\ rawtrials' = [k \in TrialUnique(trialevents) |->
                        fluency_rawtrial(df, trialevents, k)]
    /\ dfresamp' = [k \in TrialUnique(trialevents) |->
                       ResampGrid(df, fluency_rawtrial(df, trialevents, k))]
    /\ env' = env \cup {"dfresamp"}
    /\ Goto
    /\ UNCHANGED <<task, entry, df, trialevents, pupildf, pupildf6s, written,
                   err>>

\* blinkpct.to_csv(blink_outname, index=True)
WriteBlinkPct_Fluency ==
    /\ task = "fluency"
    /\ pc = "write_blinkpct"
    /\ written' = Append(written, "_BlinkPct.csv")
    /\ Goto
    /\ UNCHANGED <<task, entry, df, env, trialevents, rawtrials, dfresamp,
                   pupildf, pupildf6s, err>>

\* dfresamp.groupby(level='Trial').apply(lambda x:
\*     x.resample('500ms', level='Timestamp').mean())
fluency_resample(resamp) ==
    UNION {{[Trial |-> k, Timestamp |-> bin.Timestamp,
             members |-> bin.members] :
               bin \in ResampleLeft(resamp[k], W500ms)} :
           k \in DOMAIN resamp}

\* lines 94-98: the 500ms table and pupildf.to_csv(pupil_outname)
WritePupil_Fluency ==
    /\ task = "fluency"
    /\ pc = "write_pupil"
    /\ pupildf' = fluency_resample(dfresamp)
    /\ written' = Append(written, "_ProcessedPupil.csv")
    /\ env' = env \cup {"pupildf"}
    /\ Goto
    /\ UNCHANGED <<task, entry, df, trialevents, rawtrials, dfresamp,
                   pupildf6s, err>>

\* plot_trials(pupildf, fname), fluency and encoding
PlotTrials ==
    /\ task \in {"fluency", "encoding"}
    /\ pc = "plot_trials"
    /\ written' = Append(written, "_PupilPlot.png")
    /\ Goto
    /\ UNCHANGED <<task, entry, df, env, trialevents, rawtrials, dfresamp,
                   pupildf, pupildf6s, err>>

\* recall proc_subject, line 114
Prefilter_Recall ==
    /\ task = "recall"
    /\ pc = "prefilter"
    /\ df' = recall_prefilter(df)
    /\ Goto
    /\ UNCHANGED <<task, entry, env, trialevents, rawtrials, dfresamp,
                   pupildf, pupildf6s, written, err>>

\* recall proc_subject, lines 115-116: the session-level table, bound to
\* dfresamp until clean_trials' result replaces it
DeblinkResamp_Recall ==
    /\ task = "recall"
    /\ pc = "deblink_resamp"
    /\ dfresamp' = [k \in {0} |-> ResampGrid(df, 1..Len(df))]
    /\ env' = env \cup {"dfresamp"}
    /\ Goto
    /\ UNCHANGED <<task, entry, df, trialevents, rawtrials, pupildf,
                   pupildf6s, written, err>>

\* dfresamp = clean_trials(df, trialevents), recall: evaluating the argument
\* trialevents raises NameError when nothing has bound that name
CleanTrials_Recall ==
    /\ task = "recall"
    /\ pc = "clean_trials"
    /\ IF "trialevents" \notin env
       THEN Raise("NameError")
       ELSE /\ rawtrials' = [k \in TrialUnique(trialevents) |->
                                recall_rawtrial(df, trialevents, k)]
            /\ dfresamp' = [k \in TrialUnique(trialevents) |->
                               recall_clean_trial(df, trialevents, k)]
            /\ env' = env \cup {"dfresamp"}
            /\ Goto
            /\ UNCHANGED <<task, entry, df, trialevents, pupildf, pupildf6s,
                           written, err>>

\* trialevents = get_trial_events(df), encoding
GetTrialEvents_Encoding ==
    /\ task = "encoding"
    /\ pc = "get_trial_events"
    /\ IF encoding_get_trial_events_raises(df)
       THEN Raise("ValueError")
       ELSE /\ trialevents' = encoding_get_trial_events(df)
            /\ env' = env \cup {"trialevents"}
            /\ Goto
            /\ UNCHANGED <<task, entry, df, rawtrials, dfresamp, pupildf,
                           pupildf6s, written, err>>

\* dfresamp = clean_trials(trialevents), encoding: the loop stops at the
\* first trial that raises
CleanTrials_Encoding ==
    /\ task = "encoding"
    /\ pc = "clean_trials"
    /\ IF \E k \in TrialUnique(trialevents) :
              encoding_trial_raises(trialevents, k)
       THEN Raise("IndexError")
       ELSE /\ rawtrials' = [k \in TrialUnique(trialevents) |->
                                encoding_rawtrial(trialevents, k)]
            /\ dfresamp' = [k \in TrialUnique(trialevents) |->
                               encoding_clean_trial(trialevents, k)]
            /\ env' = env \cup {"dfresamp"}
            /\ Goto
            /\ UNCHANGED <<task, entry, df, trialevents, pupildf, pupildf6s,
                           written, err>>

\* dfresamp.groupby('Trial').apply(lambda x: x.resample(w, on='Timestamp',
\*     closed='right', label='right').mean())
encoding_resample(resamp, w) ==
    UNION {{[Trial |-> k, Timestamp |-> bin.Timestamp,
             members |-> bin.members, Baseline |-> resamp[k].Baseline] :
               bin \in ResampleRight({r.Timestamp : r \in resamp[k].rows},
                                     w)} :
           k \in DOMAIN resamp}

\* encoding proc_subject, line 109
Resample1s_Encoding ==
    /\ task = "encoding"
    /\ pc = "resample_1s"
    /\ pupildf' = encoding_resample(dfresamp, W1s)
    /\ env' = env \cup {"pupildf"}
    /\ Goto
    /\ UNCHANGED <<task, entry, df, trialevents, rawtrials, dfresamp,
                   pupildf6s, written, err>>

\* encoding proc_subject, line 120
WritePupil_Encoding ==
    /\ task = "encoding"
    /\ pc = "write_pupil"
    /\ written' = Append(written, "_ProcessedPupil.csv")
    /\ Goto
    /\ UNCHANGED <<task, entry, df, env, trialevents, rawtrials, dfresamp,
                   pupildf, pupildf6s, err>>

\* encoding proc_subject, line 125
Resample6s_Encoding ==
    /\ task = "encoding"
    /\ pc = "resample_6s"
    /\ pupildf6s' = encoding_resample(dfresamp, W6s)
    /\ env' = env \cup {"pupildf6s"}
    /\ Goto
    /\ UNCHANGED <<task, entry, df, trialevents, rawtrials, dfresamp,
                   pupildf, written, err>>

\* encoding proc_subject, line 137
WriteQuartiles_Encoding ==
    /\ task = "encoding"
    /\ pc = "write_quartiles"
    /\ written' = Append(written, "_ProcessedPupil_Quartiles.csv")
    /\ Goto
    /\ UNCHANGED <<task, entry, df, env, trialevents, rawtrials, dfresamp,
                   pupildf, pupildf6s, err>>

Next ==
    \/ GetTrialEvents_FluencyRecall
    \/ CleanTrials_Fluency
    \/ WriteBlinkPct_Fluency
    \/ WritePupil_Fluency
    \/ PlotTrials
    \/ Prefilter_Recall
    \/ DeblinkResamp_Recall
    \/ CleanTrials_Recall
    \/ GetTrialEvents_Encoding
    \/ CleanTrials_Encoding
    \/ Resample1s_Encoding
    \/ WritePupil_Encoding
    \/ Resample6s_Encoding
    \/ WriteQuartiles_Encoding

Spec == Init /\ [][Next]_vars

-----------------------------------------------------------------------------
(* Vocabulary of the properties, stated on the raw stream alone *)

\* the row's label differs from the label of the row before / after it (the
\* first row has no row before it, the last none after it)
DiffersFromPrev(d, i) == i = 1 \/ d[i].CurrentObject # d[i - 1].CurrentObject
DiffersFromNext(d, i) ==
    i = Len(d) \/ d[i].CurrentObject # d[i + 1].CurrentObject

StartRows(d) ==
    {i \in 1..Len(d) : /\ DiffersFromPrev(d, i)
                       /\ d[i].CurrentObject \in {ReadLetter, RecordLetter}}
StopRows(d) ==
    {i \in 1..Len(d) : /\ DiffersFromNext(d, i)
                       /\ d[i].CurrentObject \in {BeginFile, RecordLetter}}
BoundaryRowCount(d) == Cardinality(StartRows(d)) + Cardinality(StopRows(d))

\* the boundaries of the stream in stream order, a start before a stop of
\* the same row
RECURSIVE BoundaryPattern(_, _)
BoundaryPattern(d, i) ==
    IF i > Len(d) THEN <<>>
    ELSE (IF i \in StartRows(d)
          THEN <<[label |-> d[i].CurrentObject, kind |-> "Start"]>>
          ELSE <<>>)
         \o (IF i \in StopRows(d)
             THEN <<[label |-> d[i].CurrentObject, kind |-> "Stop"]>>
             ELSE <<>>)
         \o BoundaryPattern(d, i + 1)

TrialGrammar ==
    Blocks(<<[label |-> ReadLetter, kind |-> "Start"],
             [label |-> BeginFile, kind |-> "Stop"],
             [label |-> RecordLetter, kind |-> "Start"],
             [label |-> RecordLetter, kind |-> "Stop"]>>, NTrials)

\* the labels of the maximal runs of the stream
RECURSIVE RunLabels(_, _)
RunLabels(d, i) ==
    IF i > Len(d) THEN <<>>
    ELSE (IF DiffersFromPrev(d, i) THEN <<d[i].CurrentObject>> ELSE <<>>)
         \o RunLabels(d, i + 1)

\* 6 repetitions of a ReadLetter run, a BeginFile run, a RecordLetter run
WellFormedFluency(d) ==
    RunLabels(d, 1) = Blocks(<<ReadLetter, BeginFile, RecordLetter>>, NTrials)

\* the repetition the row at position i lies in: ReadLetter runs begun so far
Repetition(d, i) ==
    Cardinality({j \in 1..i : /\ d[j].CurrentObject = ReadLetter
                              /\ DiffersFromPrev(d, j)})

StrictlyIncreasing(d) ==
    \A i \in 1..(Len(d) - 1) : d[i].TETTime < d[i + 1].TETTime

EventTables == task \in {"fluency", "recall"} /\ "trialevents" \in env

-----------------------------------------------------------------------------
(* The properties *)

\* C1: fluency get_trial_events returns no table for a stream whose number
\* of boundary rows (start rows plus stop rows) is not 24.
C1_FailsUnless24Boundaries ==
    (task = "fluency" /\ "trialevents" \in env)
        => BoundaryRowCount(df) = 4 * NTrials

\* C2: on a well-formed fluency stream get_trial_events returns 24 events,
\* 4 for each of the trials 1..6, the events of trial k being those of the
\* k-th repetition; trials 1-3 are 'Letter', trials 4-6 'Category'.
C2_WellFormedSixTrials ==
    (task = "fluency" /\ WellFormedFluency(df) /\ pc # "get_trial_events")
        => /\ "trialevents" \in env
           /\ Len(trialevents) = 4 * NTrials
           /\ TrialUnique(trialevents) = 1..NTrials
           /\ \A k \in 1..NTrials :
                 Cardinality({p \in 1..Len(trialevents) :
                                 trialevents[p].Trial = k}) = 4
           /\ \A p \in 1..Len(trialevents) :
                 /\ trialevents[p].Trial
                        = Repetition(df, trialevents[p].idx + 1)
                 /\ trialevents[p].Condition
                        = (IF trialevents[p].Trial <= 3 THEN "Letter"
                           ELSE "Category")

\* a well-formed stream with a single-row and a longer run has been segmented
C2_Witness ==
    /\ task = "fluency" /\ WellFormedFluency(df) /\ "trialevents" \in env
    /\ Len(df) > 3 * NTrials
    /\ \E i \in 1..Len(df) : DiffersFromPrev(df, i) /\ DiffersFromNext(df, i)

EventsOf(k, ph, kind) ==
    {p \in 1..Len(trialevents) : /\ trialevents[p].Trial = k
                                 /\ trialevents[p].TrialPhase = ph
                                 /\ trialevents[p].StartStop = kind}

\* C3: in every returned trial-event table (fluency and recall) each
\* (trial, phase) has exactly one Start and one Stop, the Start earlier in
\* the table and with a strictly smaller timestamp.  Stated for the tables
\* of well-formed streams with strictly increasing timestamps, single-row
\* runs included.
C3_OneStartBeforeOneStop ==
    (EventTables /\ WellFormedFluency(df) /\ StrictlyIncreasing(df)) =>
        \A k \in 1..NTrials, ph \in {"Baseline", "Response"} :
            /\ Cardinality(EventsOf(k, ph, "Start")) = 1
            /\ Cardinality(EventsOf(k, ph, "Stop")) = 1
            /\ \A s \in EventsOf(k, ph, "Start"), t \in EventsOf(k, ph, "Stop") :
                  /\ s < t
                  /\ Lt(trialevents[s].TETTime, trialevents[t].TETTime)

\* C4: fluency segmentation returns no table for a stream whose boundaries
\* do not follow the task grammar (ReadLetter start, BeginFile stop,
\* RecordLetter start, RecordLetter stop, six times), also when the stream
\* has the 12 start rows and 12 stop rows of a well-formed one.
C4_RejectsGrammarViolation ==
    (/\ task = "fluency" /\ "trialevents" \in env
     /\ Cardinality(StartRows(df)) = 2 * NTrials
     /\ Cardinality(StopRows(df)) = 2 * NTrials)
        => BoundaryPattern(df, 1) = TrialGrammar

\* C5: recall proc_subject has computed the trial-event table (6 trials of
\* 4 boundary timestamps) when it calls clean_trials, and the run does not
\* end in that call.
C5_TableBeforeCleanTrials ==
    (task = "recall" /\ entry = "proc_subject")
        => /\ pc = "clean_trials"
                => ("trialevents" \in env /\ Len(trialevents) = 4 * NTrials)
           /\ err # "NameError"

\* the rows of the raw stream with a non-empty label, and the maximal run
\* (counted from 1 in stream order) each of them lies in
NonEmptyRows(d) == {i \in 1..Len(d) : d[i].CurrentObject # Null}
RunStarts(d) ==
    {i \in NonEmptyRows(d) : i = 1 \/ d[i - 1].CurrentObject = Null}
RunOf(d, i) == Cardinality({j \in RunStarts(d) : j <= i})

\* C6: encoding get_trial_events makes the k-th maximal run of non-empty
\* labels trial k: the table holds exactly the non-empty rows, each once and
\* in stream order, numbered by their run, the numbers being 1..n for n
\* runs; it returns no table only when the stream has no run at all.
C6_TrialsAreMaximalRuns ==
    (task = "encoding" /\ pc # "get_trial_events")
        => IF "trialevents" \in env
           THEN /\ {trialevents[p].idx + 1 : p \in 1..Len(trialevents)}
                       = NonEmptyRows(df)
                /\ Len(trialevents) = Cardinality(NonEmptyRows(df))
                /\ \A p \in 1..Len(trialevents) :
                      /\ trialevents[p].Trial
                             = RunOf(df, trialevents[p].idx + 1)
                      /\ p > 1 => trialevents[p - 1].idx < trialevents[p].idx
                /\ TrialUnique(trialevents)
                       = 1..Cardinality(RunStarts(df))
           ELSE RunStarts(df) = {}

\* a stream that begins with a run and holds a second one has been segmented
C6_Witness ==
    /\ task = "encoding" /\ "trialevents" \in env
    /\ 1 \in RunStarts(df)
    /\ Cardinality(RunStarts(df)) >= 2
    /\ Len(trialevents) > Cardinality(RunStarts(df))

\* timestamps in non-decreasing order
NonDecreasing(d) == \A i \in 1..(Len(d) - 1) : d[i].TETTime <= d[i + 1].TETTime

\* C7: clean_trials (fluency, recall) selects every raw sample of a session
\* with non-decreasing timestamps into the raw trial of at most one trial.
C7_TrialWindowsDisjoint ==
    (task \in {"fluency", "recall"} /\ NonDecreasing(df)
     /\ WellFormedFluency(df))
        => \A k \in DOMAIN rawtrials, l \in DOMAIN rawtrials :
              k # l => rawtrials[k] \cap rawtrials[l] = {}

\* the rows of the k-th run of an encoding stream
RunRows(d, k) == {i \in NonEmptyRows(d) : RunOf(d, i) = k}
HasReady(d, k) == \E i \in RunRows(d, k) : d[i].CurrentObject = Ready
HasPlayWord(d, k) ==
    \E i \in RunRows(d, k) : MatchPlayWord(d[i].CurrentObject)
Usable(d, k) == HasReady(d, k) /\ HasPlayWord(d, k)

\* C8: once encoding proc_subject has ended, a trial with an undefined
\* baseline (no 'Ready' row) or no response sample (no PlayWord row) is
\* absent from the aggregated output, and every other trial of the subject
\* is in the written output.
C8_UnusableTrialContained ==
    (task = "encoding" /\ pc \in {"done", "failed"})
        => \A k \in 1..Cardinality(RunStarts(df)) :
              IF Usable(df, k)
              THEN /\ \E r \in pupildf : r.Trial = k
                   /\ \E i \in 1..Len(written) :
                         written[i] = "_ProcessedPupil.csv"
              ELSE \A r \in pupildf \cup pupildf6s : r.Trial # k

\* C9: fluency proc_subject writes a file only after get_trial_events and
\* clean_trials have both returned; a run that failed has written nothing.
C9_NoWriteBeforeSegmentation ==
    task = "fluency"
        => /\ written # <<>> => {"trialevents", "dfresamp"} \subseteq env
           /\ pc = "failed" => written = <<>>

\* segmentation has failed for a subject
C9_Witness ==
    task = "fluency" /\ pc = "failed" /\ err = "ValueError"

\* the bin widths the tables of a task are aggregated with
FineWidth == IF task = "fluency" THEN W500ms ELSE W1s

RightClosed(table, w) ==
    \A r \in table : \A t \in r.members :
        t % w = 0 => /\ r.Timestamp = t
                     /\ \A u \in r.members : t - w < u /\ u <= t

\* C10: in every task a sample whose time is exactly k bin widths is
\* averaged into the bin labelled with that time, together with samples of
\* the bin width before it only (right-closed, right-labelled bins).
C10_RightClosedBins ==
    /\ "pupildf" \in env => RightClosed(pupildf, FineWidth)
    /\ "pupildf6s" \in env => RightClosed(pupildf6s, W6s)

\* the bins of trial k in an aggregated table, and the elapsed time D of the
\* trial's last response sample
BinsOf(table, k) == {r \in table : r.Trial = k}
Duration(k) == Max({r.Timestamp : r \in dfresamp[k].rows})
CeilDiv(d, w) == (d + w - 1) \div w

\* every trial has CeilDiv(D, w) + extra bins in the table, none labelled
\* later than D + w
BinCountIs(table, w, extra) ==
    \A k \in DOMAIN dfresamp :
        /\ Cardinality(BinsOf(table, k)) = CeilDiv(Duration(k), w) + extra
        /\ \A r \in BinsOf(table, k) : r.Timestamp <= Duration(k) + w

\* C11 as stated: for every trial whose response samples span elapsed times
\* 0..D and every bin width W, the aggregation emits ceil(D / W) rows for
\* the trial and no bin label exceeds D by more than W.
C11_BinCountIsCeil ==
    task = "encoding" =>
        /\ "pupildf" \in env => BinCountIs(pupildf, W1s, 0)
        /\ "pupildf6s" \in env => BinCountIs(pupildf6s, W6s, 0)

\* C11 as amended: for every trial whose response samples span elapsed times
\* 0..D and every bin width W, the aggregation emits ceil(D / W) + 1 rows
\* for the trial (the bin labelled 0 holds the sample at elapsed time 0) and
\* no bin label exceeds D by more than W.
C11_BinCountIsCeilPlusOne ==
    task = "encoding" =>
        /\ "pupildf" \in env => BinCountIs(pupildf, W1s, 1)
        /\ "pupildf6s" \in env => BinCountIs(pupildf6s, W6s, 1)

\* both tables of a session are built and a trial is longer than one fine
\* bin
C11_Witness ==
    /\ task = "encoding"
    /\ "pupildf6s" \in env
    /\ \E k \in DOMAIN dfresamp : Duration(k) > W1s

\* recall's get_trial_events and clean_trials have both returned
RecallCleaned == task = "recall" /\ entry = "functions" /\ pc = "done"

\* C12: in recall clean_trials the baseline of a trial is the mean of samples
\* of the trial's Baseline window only: no sample whose Phase is 'Response'
\* is among the samples averaged, also when the Baseline window is shorter
\* than 2000ms.
C12_BaselineFromBaselineWindow ==
    (RecallCleaned /\ WellFormedFluency(df) /\ StrictlyIncreasing(df)) =>
        \A k \in DOMAIN dfresamp :
            \A s \in dfresamp[k].Baseline : s.Phase # "Response"

\* the label begins with 'PlayWord'
BeginsWithPlayWord(l) == l \in {PlayWord}

\* C13: the table clean_trials returns holds Response-phase rows only: in
\* encoding every row's label begins with 'PlayWord' and the first row of
\* each trial has elapsed time zero, in recall every row has Phase
\* 'Response'.
C13_ResponseRowsOnly ==
    /\ (task = "encoding" /\ "dfresamp" \in env) =>
           \A k \in DOMAIN dfresamp :
               /\ \A r \in dfresamp[k].rows :
                      BeginsWithPlayWord(r.CurrentObject)
               /\ dfresamp[k].rows # {}
               /\ Min({r.Timestamp : r \in dfresamp[k].rows}) = 0
    /\ RecallCleaned =>
           \A k \in DOMAIN dfresamp :
               \A r \in dfresamp[k].rows : r.Phase = "Response"

\* clean_trials has returned for an encoding session with a trial that has
\* a 'Ready' row and an 'EndPlayWord' row before its response rows
C13_Witness ==
    /\ task = "encoding"
    /\ "dfresamp" \in env
    /\ \E k \in DOMAIN rawtrials : \E p, q \in rawtrials[k] :
           /\ trialevents[p].CurrentObject = Ready
           /\ trialevents[q].CurrentObject = EndPlayWord

====
